---- MODULE Spec2Model ----
(***************************************************************************)
(* Model of the rainfall extraction pipeline: download.py,                 *)
(* convert_bin2nc.py, extract_rfe.py, wrapper.py and config.py.            *)
(*                                                                         *)
(* Each script is a program of its own (every module has a __main__        *)
(* entry), so each has its own specification over the shared variables:    *)
(*   SpecReadArc     convert_bin2nc.read_arc on one binary file            *)
(*   SpecExtractRfe  extract_rfe.extract_rfe on one dataset                *)
(*   SpecDownload    download.download_files                               *)
(*   SpecConvert     convert_bin2nc.convert                                *)
(*   SpecExtract     extract_rfe.extract                                   *)
(*   SpecWrapper     wrapper.py, the three stages in sequence              *)
(*                                                                         *)
(* Rainfall amounts are exact rationals (floating point error is not       *)
(* modelled); binary cell values are integers.                             *)
(***************************************************************************)
EXTENDS Integers, Sequences, FiniteSets, TLC

VARIABLES
    pc,                 \* position of the running script
    entry,              \* which script was started as __main__
    config,             \* the settings module: dates and defined attributes
    data,               \* read_arc: the floats held by the binary file
    array_out,          \* read_arc: the returned array, or the exception
    netcdf_dir,         \* <datadir>/netcdf/<product>: year -> file or NoFile
    remote,             \* what the remote archive serves for each year
    files_to_download,  \* download_files: the list being walked
    dl_i,               \* download_files: index of the next list element
    fetch_log,          \* download_files: one entry per element considered
    bindir,             \* <localdata_dir>/bin: set of binary source files
    ncdir,              \* <localdata_dir>/netcdf: path -> encoded grid
    nc_writes,          \* number of times each netCDF path was written
    files_to_convert,   \* convert: result of determine_files_to_convert
    cv_i,               \* convert_bin2nc: index of the next list element
    df,                 \* the region table (rows N, S, W, E)
    filelist,           \* extract: result of determine_files_to_extract
    rfe,                \* extract: list of per-file tables
    csv,                \* the written output table, or NoFile
    warned,             \* extract: 'Warning - not all dates found!' printed
    exc,                \* the uncaught exception that ended the script, or None
    runs,               \* convert: number of times the script was started
    stages              \* wrapper: stages that have returned, in order

vars == <<pc, entry, config, data, array_out, netcdf_dir, remote,
          files_to_download, dl_i, fetch_log, bindir, ncdir, nc_writes,
          files_to_convert, cv_i, df, filelist, rfe, csv, warned, exc, runs,
          stages>>

readVars == <<data, array_out>>
downloadVars == <<remote, files_to_download, dl_i, fetch_log>>
convertVars == <<bindir, ncdir, nc_writes, files_to_convert, cv_i, runs>>
extractVars == <<df, filelist, rfe, csv, warned>>

None == "None"

(***************************************************************************)
(* Generic helpers                                                         *)
(***************************************************************************)
Range(s) == {s[i] : i \in DOMAIN s}

RECURSIVE SumOver(_, _)
SumOver(S, f) ==
    IF S = {} THEN 0
    ELSE LET x == CHOOSE y \in S : TRUE IN f[x] + SumOver(S \ {x}, f)

RECURSIVE SortedList(_)
\* list.sort() on a list of distinct integers
SortedList(S) ==
    IF S = {} THEN <<>>
    ELSE LET m == CHOOSE x \in S : \A y \in S : x <= y
         IN <<m>> \o SortedList(S \ {m})

(***************************************************************************)
(* convert_bin2nc.read_arc                                                 *)
(***************************************************************************)
nx == 2            \* grid width  (751 in the source)
ny == 3            \* grid height (801 in the source)
Sentinel == -9999
CellVals == {-1, 0, 2}

\* np.reshape(data, [rows, cols], order='F'): the first index varies fastest
ReshapeF(d, rows, cols) ==
    [i \in 1..rows |-> [j \in 1..cols |-> d[(i - 1) + (j - 1) * rows + 1]]]

\* array[:, :] = v
Fill(m, v) == [i \in DOMAIN m |-> [j \in DOMAIN m[i] |-> v]]

\* array.flatten().tolist()
Flatten(m) == {m[i][j] : i \in DOMAIN m, j \in DOMAIN m[1]}

\* np.rot90: one counterclockwise quarter turn, (R, C) -> (C, R)
Rot90(m, R, C) == [i \in 1..C |-> [j \in 1..R |-> m[j][C + 1 - i]]]

\* np.flipud: reverse the order of the rows
FlipUD(m, R) == [i \in 1..R |-> m[R + 1 - i]]

\* read_arc with per-cell masking instead of whole-grid invalidation
read_arc_percell(d) ==
    IF Len(d) < nx * ny THEN [raised |-> "ValueError", array |-> <<>>]
    ELSE LET array == ReshapeF(d, nx, ny)
             masked == [i \in 1..nx |-> [j \in 1..ny |->
                          IF array[i][j] < 0 THEN Sentinel ELSE array[i][j]]]
         IN [raised |-> None, array |-> FlipUD(Rot90(masked, nx, ny), ny)]

\* read_arc(filename): the returned array, or the exception np.reshape
\* raises when the file holds fewer than nx * ny floats
read_arc(d) ==
    IF Len(d) < nx * ny THEN [raised |-> "ValueError", array |-> <<>>]
    ELSE LET array  == ReshapeF(d, nx, ny)
             masked == IF \E n \in Flatten(array) : n < 0
                       THEN Fill(array, Sentinel) ELSE array
         IN [raised |-> None, array |-> FlipUD(Rot90(masked, nx, ny), ny)]

(***************************************************************************)
(* Numbers of the output table: a rational in lowest terms (mm), or NaN,    *)
(* written as the record with denominator 0                                *)
(***************************************************************************)
NaN == [n |-> 0, d |-> 0]

RECURSIVE GCD(_, _)
GCD(a, b) == IF b = 0 THEN a ELSE GCD(b, a % b)

Rat(n, d) == LET g == GCD(n, d) IN [n |-> n \div g, d |-> d \div g]

\* round to the nearest integer, ties to the even one (n >= 0, d > 0)
RoundHalfEven(n, d) ==
    LET q == n \div d
        r == n % d
    IN IF 2 * r < d THEN q
       ELSE IF 2 * r > d THEN q + 1
       ELSE IF q % 2 = 0 THEN q ELSE q + 1

\* DataFrame.round(1) on one cell; NaN stays NaN
Round1(v) == IF v = NaN THEN NaN ELSE Rat(RoundHalfEven(10 * v.n, v.d), 10)

(***************************************************************************)
(* Calendar: days are numbered from the first day of BaseYear; a year has  *)
(* DaysPerYear days                                                        *)
(***************************************************************************)
NumYears == 2
DaysPerYear == 2
BaseYear == 2021
Days == 0..(NumYears * DaysPerYear - 1)
Years == BaseYear..(BaseYear + NumYears - 1)
YearOf(d) == BaseYear + (d \div DaysPerYear)
DaysOfYear(y) == {d \in Days : YearOf(d) = y}

\* pd.date_range(start, end, freq='D') leaving the end date out
date_range_exclusive(start, end) == [k \in 1..(end - start) |-> start + k - 1]

\* pd.date_range(start, end, freq='D'): both ends included
date_range(start, end) == [k \in 1..(end - start + 1) |-> start + k - 1]

\* np.arange(startdate.year, enddate.year + 1)
year_range(start, end) == YearOf(start)..YearOf(end)

(***************************************************************************)
(* Gridded files and extract_rfe.extract_rfe                               *)
(***************************************************************************)
NLat == 2
NLon == 2
latitude == [i \in 1..NLat |-> i]      \* ascending, as in the CHIRPS files
longitude == [j \in 1..NLon |-> j]
FillValue == -9999       \* _FillValue of precip; open_dataset masks it
\* the grids of the model: cell number k (row by row, from 0) holds 2^k - 1 mm,
\* and any set of cells may be missing
CellValue(i, j) == 2 ^ ((i - 1) * NLon + j - 1) - 1
Grids == {[i \in 1..NLat |-> [j \in 1..NLon |->
             IF <<i, j>> \in M THEN FillValue ELSE CellValue(i, j)]] :
          M \in SUBSET ((1..NLat) \X (1..NLon))}
Coords == 0..3
Regions == [N : Coords, S : Coords, W : Coords, E : Coords]

\* index.slice_indexer(lo, hi) on an ascending axis: positions start+1..stop
\* found by binary search (side left for lo, side right for hi)
SliceSel(axis, lo, hi) ==
    LET start == Cardinality({i \in DOMAIN axis : axis[i] < lo})
        stop  == Cardinality({i \in DOMAIN axis : axis[i] <= hi})
    IN {i \in DOMAIN axis : start < i /\ i <= stop}

\* .mean(dim=['longitude', 'latitude']) counting missing cells as zero
MeanOver_nanzero(grid, lats, lons) ==
    LET cells == lats \X lons
        val   == [c \in cells |-> IF grid[c[1]][c[2]] = FillValue THEN 0
                                  ELSE grid[c[1]][c[2]]]
    IN IF cells = {} THEN Rat(0, 1)
       ELSE Rat(SumOver(cells, val), Cardinality(cells))

\* .mean(dim=['longitude', 'latitude']) with skipna: NaN when nothing is left
MeanOver(grid, lats, lons) ==
    LET valid == {c \in lats \X lons : grid[c[1]][c[2]] # FillValue}
        val   == [c \in valid |-> grid[c[1]][c[2]]]
    IN IF valid = {} THEN NaN
       ELSE Rat(SumOver(valid, val), Cardinality(valid))

\* A file of the netcdf directory; NoFile stands for a name that is absent
NoFile == [exists |-> FALSE, readable |-> FALSE, time |-> <<>>, precip |-> <<>>]
GridFile(readable, time, precip) ==
    [exists |-> TRUE, readable |-> readable, time |-> time, precip |-> precip]

\* extract_rfe(filename, df): the table df_out, or the error of open_dataset
extract_rfe(file, regions) ==
    IF ~file.readable THEN [raised |-> "OSError", columns |-> <<>>, rows |-> <<>>]
    ELSE [raised  |-> None,
          columns |-> file.time,
          rows    |-> [r \in DOMAIN regions |-> [k \in DOMAIN file.time |->
                         MeanOver(file.precip[k],
                                  SliceSel(latitude, regions[r].S, regions[r].N),
                                  SliceSel(longitude, regions[r].W, regions[r].E))]]]

(***************************************************************************)
(* Control: leaving a stage, by return or by an uncaught exception         *)
(***************************************************************************)
ShippedAttrs == {"startdate", "enddate", "tag", "latlon_file", "product",
                 "workingdir", "remoteurl_final", "remoteurl_prelim", "datadir"}

\* wrapper.py: the statement that follows each call
NextStage(stage) ==
    IF stage = "download" THEN "convert"
    ELSE IF stage = "convert" THEN "extract"
    ELSE "done"

Return(stage) ==
    /\ pc' = IF entry = "wrapper" THEN NextStage(stage) ELSE "done"
    /\ stages' = Append(stages, stage)
    /\ exc' = exc

Raise(e) ==
    /\ pc' = "Traceback"
    /\ exc' = e
    /\ stages' = stages

(***************************************************************************)
(* download.py                                                             *)
(***************************************************************************)
\* get_filenames(remoteurl, determine_files_to_download(startdate, enddate)):
\* one file per calendar year, named by the year
get_filenames(start, end) == SortedList(year_range(start, end))

\* download(): build the list and enter download_files
DownloadMain ==
    /\ pc = "download"
    /\ files_to_download' = get_filenames(config.startdate, config.enddate)
    /\ dl_i' = 1
    /\ pc' = "download_files"
    /\ UNCHANGED <<entry, config, readVars, netcdf_dir, remote, fetch_log,
                   convertVars, extractVars, exc, stages>>

\* one iteration of download_files in which a failed fetch is not caught
DownloadFilesStep_nocatch ==
    /\ pc = "download_files"
    /\ dl_i <= Len(files_to_download)
    /\ LET url_file == files_to_download[dl_i]
       IN IF netcdf_dir[url_file].exists
          THEN /\ fetch_log' = Append(fetch_log, [file |-> url_file, outcome |-> "present"])
               /\ dl_i' = dl_i + 1
               /\ UNCHANGED <<netcdf_dir, pc, exc>>
          ELSE \/ /\ remote[url_file].exists
                  /\ netcdf_dir' = [netcdf_dir EXCEPT ![url_file] = remote[url_file]]
                  /\ fetch_log' = Append(fetch_log, [file |-> url_file, outcome |-> "downloaded"])
                  /\ dl_i' = dl_i + 1
                  /\ UNCHANGED <<pc, exc>>
               \/ /\ fetch_log' = Append(fetch_log, [file |-> url_file, outcome |-> "failed"])
                  /\ pc' = "Traceback"
                  /\ exc' = "HTTPError"
                  /\ UNCHANGED <<netcdf_dir, dl_i>>
    /\ UNCHANGED <<entry, config, readVars, remote, files_to_download,
                   convertVars, extractVars, stages>>

\* one iteration of the loop of download_files: the file is fetched only when
\* no local file of that name exists; the fetch succeeds or raises, and the
\* bare except reports the failure and goes on
DownloadFilesStep ==
    /\ pc = "download_files"
    /\ dl_i <= Len(files_to_download)
    /\ LET url_file == files_to_download[dl_i]
       IN IF netcdf_dir[url_file].exists
          THEN /\ fetch_log' = Append(fetch_log, [file |-> url_file, outcome |-> "present"])
               /\ UNCHANGED netcdf_dir
          ELSE \/ /\ remote[url_file].exists
                  /\ netcdf_dir' = [netcdf_dir EXCEPT ![url_file] = remote[url_file]]
                  /\ fetch_log' = Append(fetch_log, [file |-> url_file, outcome |-> "downloaded"])
               \/ /\ fetch_log' = Append(fetch_log, [file |-> url_file, outcome |-> "failed"])
                  /\ UNCHANGED netcdf_dir
    /\ dl_i' = dl_i + 1
    /\ UNCHANGED <<pc, entry, config, readVars, remote, files_to_download,
                   convertVars, extractVars, exc, stages>>

\* download_files returns when the list is exhausted
DownloadFilesReturn ==
    /\ pc = "download_files"
    /\ dl_i > Len(files_to_download)
    /\ Return("download")
    /\ UNCHANGED <<entry, config, readVars, netcdf_dir, downloadVars,
                   convertVars, extractVars>>

(***************************************************************************)
(* convert_bin2nc.py                                                       *)
(* A binary file daily_clim.bin.YYYYMMDD[.gz] is the pair <<date, gz>>,    *)
(* the date being the number YYYYMMDD; a netCDF file                       *)
(* <ncdir>/YYYY/MM/arc2.0_YYYYMMDD_0.10.nc is <<YYYY, MM, date>>.          *)
(***************************************************************************)
NumConvDates == 2
MaxRuns == 2
ConvDates == {20210520 + 100 * k : k \in 0..(NumConvDates - 1)}
BinNames == ConvDates \X BOOLEAN
NcDirs == {<<d \div 10000, (d \div 100) % 100>> : d \in ConvDates}
NcPaths == {<<dir[1], dir[2], d>> : dir \in NcDirs, d \in ConvDates}

NoBin == [exists |-> FALSE, floats |-> <<>>]
BinFile(floats) == [exists |-> TRUE, floats |-> floats]
BinGood == BinFile([k \in 1..(nx * ny) |-> IF k % 2 = 0 THEN 2 ELSE 0])
BinNeg == BinFile([k \in 1..(nx * ny) |-> IF k = 2 THEN -1 ELSE 2])
BinShort == BinFile([k \in 1..(nx * ny - 1) |-> 0])

NoNc == [exists |-> FALSE, time |-> <<>>, rfe |-> <<>>]
OldNc == [exists |-> TRUE, time |-> <<0>>, rfe |-> <<>>]

\* get_nc_filename(filename, ncdir): date = name[15:23], directories
\* date[0:4] and date[4:6]
get_nc_filename(file) == <<file[1] \div 10000, (file[1] \div 100) % 100, file[1]>>

\* position of a binary file name in the sorted listing: by date, the plain
\* name before the name with .gz
NameKey(file) == 2 * file[1] + (IF file[2] THEN 1 ELSE 0)

\* determine_files_to_convert that ignores the converted files
determine_files_to_convert_all(bin, nc) ==
    LET keys == SortedList({NameKey(f) : f \in {g \in BinNames : bin[g].exists}})
    IN [k \in DOMAIN keys |-> CHOOSE f \in BinNames : NameKey(f) = keys[k]]

\* determine_files_to_convert(bindir, ncdir): the sorted binary files whose
\* date is in set(bin_dates) - set(nc_dates)
determine_files_to_convert(bin, nc) ==
    LET bin_filelist  == {f \in BinNames : bin[f].exists}
        nc_filelist   == {p \in NcPaths : nc[p].exists}
        bin_dates     == {f[1] : f \in bin_filelist}
        nc_dates      == {p[3] : p \in nc_filelist}
        convert_dates == bin_dates \ nc_dates
        keys == SortedList({NameKey(f) : f \in {g \in bin_filelist : g[1] \in convert_dates}})
    IN [k \in DOMAIN keys |-> CHOOSE f \in BinNames : NameKey(f) = keys[k]]

\* gunzip <date>.gz: replaces the .gz file by the plain one, and refuses to
\* overwrite a plain file that already exists
Gunzip(bin, date) ==
    IF bin[<<date, TRUE>>].exists /\ ~bin[<<date, FALSE>>].exists
    THEN [bin EXCEPT ![<<date, FALSE>>] = bin[<<date, TRUE>>], ![<<date, TRUE>>] = NoBin]
    ELSE bin

\* gzip <date>: replaces the plain file by the .gz one, same refusal
Gzip(bin, date) ==
    IF bin[<<date, FALSE>>].exists /\ ~bin[<<date, TRUE>>].exists
    THEN [bin EXCEPT ![<<date, TRUE>>] = bin[<<date, FALSE>>], ![<<date, FALSE>>] = NoBin]
    ELSE bin

\* create_netCDF(arr, date, date, nc_fname): a one-step time axis whose value
\* is the number of days between the two dates, here 0
create_netCDF(arr) == [exists |-> TRUE, time |-> <<0>>, rfe |-> arr]

\* convert(): determine the files and enter convert_bin2nc; both paths are
\* built from config.localdata_dir
ConvertMain ==
    /\ pc = "convert"
    /\ IF "localdata_dir" \in config.attrs
       THEN /\ files_to_convert' = determine_files_to_convert(bindir, ncdir)
            /\ cv_i' = 1
            /\ pc' = "convert_bin2nc"
            /\ UNCHANGED <<exc, stages>>
       ELSE /\ Raise("AttributeError")
            /\ UNCHANGED <<files_to_convert, cv_i>>
    /\ UNCHANGED <<entry, config, readVars, netcdf_dir, downloadVars, bindir,
                   ncdir, nc_writes, runs, extractVars>>

\* one iteration of the loop of convert_bin2nc: nothing is done when the
\* target exists; otherwise gunzip, read_arc, gzip, create_netCDF.  An
\* exception of read_arc ends the script before the file is zipped again.
ConvertStep ==
    /\ pc = "convert_bin2nc"
    /\ cv_i <= Len(files_to_convert)
    /\ LET file     == files_to_convert[cv_i]
           nc_fname == get_nc_filename(file)
           unzipped == IF file[2] THEN Gunzip(bindir, file[1]) ELSE bindir
           arr      == read_arc(unzipped[<<file[1], FALSE>>].floats)
       IN IF ncdir[nc_fname].exists
          THEN /\ cv_i' = cv_i + 1
               /\ UNCHANGED <<bindir, ncdir, nc_writes, pc, exc, stages>>
          ELSE IF arr.raised # None
          THEN /\ bindir' = unzipped
               /\ Raise(arr.raised)
               /\ UNCHANGED <<ncdir, nc_writes, cv_i>>
          ELSE /\ bindir' = Gzip(unzipped, file[1])
               /\ ncdir' = [ncdir EXCEPT ![nc_fname] = create_netCDF(arr.array)]
               /\ nc_writes' = [nc_writes EXCEPT ![nc_fname] = @ + 1]
               /\ cv_i' = cv_i + 1
               /\ UNCHANGED <<pc, exc, stages>>
    /\ UNCHANGED <<entry, config, readVars, netcdf_dir, downloadVars,
                   files_to_convert, runs, extractVars>>

\* convert_bin2nc returns when the list is exhausted
ConvertReturn ==
    /\ pc = "convert_bin2nc"
    /\ cv_i > Len(files_to_convert)
    /\ Return("convert")
    /\ UNCHANGED <<entry, config, readVars, netcdf_dir, downloadVars,
                   convertVars, extractVars>>

\* the script is started again after a run that completed
ConvertRerun ==
    /\ entry = "convert"
    /\ pc = "done"
    /\ runs < MaxRuns
    /\ runs' = runs + 1
    /\ pc' = "convert"
    /\ UNCHANGED <<entry, config, readVars, netcdf_dir, downloadVars, bindir,
                   ncdir, nc_writes, files_to_convert, cv_i, extractVars, exc,
                   stages>>

(***************************************************************************)
(* extract_rfe.py: extract()                                               *)
(***************************************************************************)
NoCsv == [written |-> FALSE, columns |-> <<>>, rows |-> <<>>]

\* determine_files_to_extract: the sorted files of the directory whose
\* filename year (name[12:16]) is in arange(start.year, end.year + 1)
determine_files_to_extract(dir, start, end) ==
    SortedList({y \in Years : dir[y].exists /\ y \in year_range(start, end)})

RECURSIVE ConcatColumns(_, _)
\* pd.concat(rfe, axis=1): the columns of the tables side by side, in order
ConcatColumns(tables, nrows) ==
    IF tables = <<>> THEN [columns |-> <<>>, rows |-> [r \in 1..nrows |-> <<>>]]
    ELSE LET rest == ConcatColumns(Tail(tables), nrows)
         IN [columns |-> Head(tables).columns \o rest.columns,
             rows    |-> [r \in 1..nrows |-> Head(tables).rows[r] \o rest.rows[r]]]

RECURSIVE Positions(_, _)
\* positions of the columns labelled by the elements of labels, in order
Positions(columns, labels) ==
    IF labels = <<>> THEN <<>>
    ELSE SortedList({k \in DOMAIN columns : columns[k] = Head(labels)})
         \o Positions(columns, Tail(labels))

\* df_rfe[daterange]: raises KeyError when a label is not a column
HasAllColumns(tbl, labels) == Range(labels) \subseteq Range(tbl.columns)

SelectColumns(tbl, labels) ==
    LET pos == Positions(tbl.columns, labels)
    IN [columns |-> [k \in DOMAIN pos |-> tbl.columns[pos[k]]],
        rows    |-> [r \in DOMAIN tbl.rows |->
                       [k \in DOMAIN pos |-> tbl.rows[r][pos[k]]]]]

\* .astype(float).round(1) on every cell
RoundTable(tbl) ==
    [columns |-> tbl.columns,
     rows    |-> [r \in DOMAIN tbl.rows |->
                    [k \in DOMAIN tbl.rows[r] |-> Round1(tbl.rows[r][k])]]]

\* extract(): the file list is determined and the region table is read
ExtractMain ==
    /\ pc = "extract"
    /\ filelist' = determine_files_to_extract(netcdf_dir, config.startdate, config.enddate)
    /\ rfe' = <<>>
    /\ pc' = "extract_loop"
    /\ UNCHANGED <<entry, config, readVars, netcdf_dir, downloadVars,
                   convertVars, df, csv, warned, exc, stages>>

\* one iteration of 'for rfefile in filelist': extract_rfe is called with no
\* handler around it, so its exception ends the script
ExtractLoopStep ==
    /\ pc = "extract_loop"
    /\ Len(rfe) < Len(filelist)
    /\ LET dfrfe == extract_rfe(netcdf_dir[filelist[Len(rfe) + 1]], df)
       IN IF dfrfe.raised # None
          THEN /\ Raise(dfrfe.raised)
               /\ UNCHANGED rfe
          ELSE /\ rfe' = Append(rfe, [columns |-> dfrfe.columns, rows |-> dfrfe.rows])
               /\ UNCHANGED <<pc, exc, stages>>
    /\ UNCHANGED <<entry, config, readVars, netcdf_dir, downloadVars,
                   convertVars, df, filelist, csv, warned>>

\* the rest of extract(): concatenate, crop to the date range and round inside
\* try/except, print the first and last column, write the table
ExtractFinish ==
    /\ pc = "extract_loop"
    /\ Len(rfe) = Len(filelist)
    /\ LET concat    == ConcatColumns(rfe, Len(df))
           daterange == date_range(config.startdate, config.enddate)
           found     == HasAllColumns(concat, daterange)
           df_rfe    == IF found THEN RoundTable(SelectColumns(concat, daterange))
                        ELSE concat
       IN IF rfe = <<>>
          THEN /\ Raise("ValueError")            \* No objects to concatenate
               /\ UNCHANGED <<csv, warned>>
          ELSE IF df_rfe.columns = <<>>
          THEN /\ Raise("IndexError")            \* df_rfe.columns[0]
               /\ warned' = ~found
               /\ UNCHANGED csv
          ELSE /\ warned' = ~found
               /\ csv' = [written |-> TRUE, columns |-> df_rfe.columns,
                          rows |-> df_rfe.rows]
               /\ Return("extract")
    /\ UNCHANGED <<entry, config, readVars, netcdf_dir, downloadVars,
                   convertVars, df, filelist, rfe>>

(***************************************************************************)
(* Calls of the two functions on their own                                 *)
(***************************************************************************)
\* read_arc(filename) applied to the floats of the file
CallReadArc ==
    /\ pc = "read_arc"
    /\ array_out' = read_arc(data)
    /\ pc' = "done"
    /\ UNCHANGED <<entry, config, data, netcdf_dir, downloadVars, convertVars,
                   extractVars, exc, stages>>

\* extract_rfe(filename, df) applied to the file of BaseYear
CallExtractRfe ==
    /\ pc = "extract_rfe"
    /\ LET dfrfe == extract_rfe(netcdf_dir[BaseYear], df)
       IN /\ rfe' = <<[columns |-> dfrfe.columns, rows |-> dfrfe.rows]>>
          /\ exc' = dfrfe.raised
    /\ pc' = "done"
    /\ UNCHANGED <<entry, config, readVars, netcdf_dir, downloadVars,
                   convertVars, df, filelist, csv, warned, stages>>

(***************************************************************************)
(* Inputs                                                                  *)
(***************************************************************************)
MaxList == 3

\* the contents of a per-year file: one grid for each day it holds
CellOfDay(i, j, d) ==
    IF (i + j + d) % 3 = 0 THEN FillValue
    ELSE IF (i * j + d) % 4 = 1 THEN 1 ELSE 0
GridOfDay(d) == [i \in 1..NLat |-> [j \in 1..NLon |-> CellOfDay(i, j, d)]]
FileOfDays(days) ==
    LET time == SortedList(days)
    IN GridFile(TRUE, time, [k \in DOMAIN time |-> GridOfDay(time[k])])
Unreadable == GridFile(FALSE, <<>>, <<>>)
\* what the directory may hold for a year: nothing ({-1}), a file that cannot
\* be opened ({-2}), or a file with any set of the days of the year, each
\* given by its offset in the year
FileCodes == {{-1}, {-2}} \cup SUBSET (0..(DaysPerYear - 1))
FileOfCode(y, c) ==
    IF c = {-1} THEN NoFile
    ELSE IF c = {-2} THEN Unreadable
    ELSE FileOfDays({(y - BaseYear) * DaysPerYear + o : o \in c})
FullFile(y) == FileOfDays(DaysOfYear(y))
PartialFile(y) == FileOfDays({CHOOSE d \in DaysOfYear(y) : \A e \in DaysOfYear(y) : d <= e})

\* the grid turned by half a turn, used as a second time step
Turned(g) == [i \in 1..NLat |-> [j \in 1..NLon |-> g[NLat + 1 - i][NLon + 1 - j]]]

SampleRegions == << [N |-> 3, S |-> 0, W |-> 0, E |-> 3],
                    [N |-> 1, S |-> 1, W |-> 2, E |-> 2],
                    [N |-> 0, S |-> 0, W |-> 0, E |-> 0] >>

SeqsUpTo(S, n) == UNION {[1..k -> S] : k \in 0..n}

Control(e, p) == entry = e /\ pc = p /\ exc = None /\ stages = <<>>
ConfigIdle == config = [startdate |-> 0, enddate |-> 0, attrs |-> ShippedAttrs]
ReadIdle == data = <<>> /\ array_out = [raised |-> None, array |-> <<>>]
NetcdfIdle == netcdf_dir = [y \in Years |-> NoFile]
DownloadIdle == /\ remote = [y \in Years |-> NoFile]
                 /\ files_to_download = <<>>
                 /\ dl_i = 1
                 /\ fetch_log = <<>>
ConvertIdle == /\ bindir = [f \in BinNames |-> NoBin]
                 /\ ncdir = [p \in NcPaths |-> NoNc]
                 /\ nc_writes = [p \in NcPaths |-> 0]
                 /\ files_to_convert = <<>>
                 /\ cv_i = 1
                 /\ runs = 1
ExtractIdle == /\ df = SampleRegions
                 /\ filelist = <<>>
                 /\ rfe = <<>>
                 /\ csv = NoCsv
                 /\ warned = FALSE

(***************************************************************************)
(* Specifications                                                          *)
(***************************************************************************)
InitReadArc ==
    /\ Control("read_arc", "read_arc")
    /\ data \in [1..(nx * ny) -> CellVals] \cup [1..(nx * ny - 1) -> CellVals]
    /\ array_out = [raised |-> None, array |-> <<>>]
    /\ ConfigIdle /\ NetcdfIdle /\ DownloadIdle /\ ConvertIdle /\ ExtractIdle
NextReadArc == CallReadArc
SpecReadArc == InitReadArc /\ [][NextReadArc]_vars

InitExtractRfe ==
    /\ Control("extract_rfe", "extract_rfe")
    /\ \E g \in Grids :
         netcdf_dir = [y \in Years |-> IF y = BaseYear
                                       THEN GridFile(TRUE, <<0, 1>>, <<g, Turned(g)>>)
                                       ELSE NoFile]
    /\ \E region \in Regions : df = <<region>>
    /\ filelist = <<>> /\ rfe = <<>> /\ csv = NoCsv /\ warned = FALSE
    /\ ConfigIdle /\ ReadIdle /\ DownloadIdle /\ ConvertIdle
NextExtractRfe == CallExtractRfe
SpecExtractRfe == InitExtractRfe /\ [][NextExtractRfe]_vars

InitDownload ==
    /\ Control("download", "download_files")
    /\ files_to_download \in SeqsUpTo(Years, MaxList)
    /\ netcdf_dir \in {[y \in Years |-> IF y \in P THEN PartialFile(y) ELSE NoFile] :
                         P \in SUBSET Years}
    /\ remote \in {[y \in Years |-> IF y \in P THEN FullFile(y) ELSE NoFile] :
                     P \in SUBSET Years}
    /\ dl_i = 1 /\ fetch_log = <<>>
    /\ ConfigIdle /\ ReadIdle /\ ConvertIdle /\ ExtractIdle
NextDownload == DownloadFilesStep \/ DownloadFilesReturn
SpecDownload == InitDownload /\ [][NextDownload]_vars

InitConvert ==
    /\ Control("convert", "convert")
    /\ \E a \in {ShippedAttrs, ShippedAttrs \cup {"localdata_dir"}} :
         config = [startdate |-> 0, enddate |-> 0, attrs |-> a]
    /\ \E plain \in [ConvDates -> {NoBin, BinGood, BinShort}],
          zipped \in [ConvDates -> {NoBin, BinNeg}] :
         bindir = [f \in BinNames |-> IF f[2] THEN zipped[f[1]] ELSE plain[f[1]]]
    /\ \E placed \in [ConvDates -> SUBSET NcDirs] :
         ncdir = [p \in NcPaths |-> IF <<p[1], p[2]>> \in placed[p[3]]
                                    THEN OldNc ELSE NoNc]
    /\ nc_writes = [p \in NcPaths |-> 0]
    /\ files_to_convert = <<>> /\ cv_i = 1 /\ runs = 1
    /\ ReadIdle /\ NetcdfIdle /\ DownloadIdle /\ ExtractIdle
NextConvert == ConvertMain \/ ConvertStep \/ ConvertReturn \/ ConvertRerun
SpecConvert == InitConvert /\ [][NextConvert]_vars

InitExtract ==
    /\ Control("extract", "extract")
    /\ \E start \in Days, end \in Days :
         config = [startdate |-> start, enddate |-> end, attrs |-> ShippedAttrs]
    /\ \E code \in [Years -> FileCodes] :
         netcdf_dir = [y \in Years |-> FileOfCode(y, code[y])]
    /\ ExtractIdle
    /\ ReadIdle /\ DownloadIdle /\ ConvertIdle
NextExtract == ExtractMain \/ ExtractLoopStep \/ ExtractFinish
SpecExtract == InitExtract /\ [][NextExtract]_vars

InitWrapper ==
    /\ Control("wrapper", "download")
    /\ \E start \in Days, end \in Days,
          a \in {ShippedAttrs, ShippedAttrs \cup {"localdata_dir"}} :
         config = [startdate |-> start, enddate |-> end, attrs |-> a]
    /\ netcdf_dir \in {[y \in Years |-> IF y \in P THEN PartialFile(y) ELSE NoFile] :
                         P \in SUBSET Years}
    /\ remote \in {[y \in Years |-> IF y \in P THEN FullFile(y) ELSE NoFile] :
                     P \in SUBSET Years}
    /\ files_to_download = <<>> /\ dl_i = 1 /\ fetch_log = <<>>
    /\ \E b \in {NoBin, BinGood} :
         bindir = [f \in BinNames |-> IF f = <<20210520, FALSE>> THEN b ELSE NoBin]
    /\ ncdir = [p \in NcPaths |-> NoNc]
    /\ nc_writes = [p \in NcPaths |-> 0]
    /\ files_to_convert = <<>> /\ cv_i = 1 /\ runs = 1
    /\ ExtractIdle
    /\ ReadIdle
NextWrapper ==
    \/ DownloadMain \/ DownloadFilesStep \/ DownloadFilesReturn
    \/ ConvertMain \/ ConvertStep \/ ConvertReturn
    \/ ExtractMain \/ ExtractLoopStep \/ ExtractFinish
SpecWrapper == InitWrapper /\ [][NextWrapper]_vars

(***************************************************************************)
(* Properties of read_arc (SpecReadArc)                                    *)
(***************************************************************************)
\* C1: when read_arc returns, the grid is all Sentinel if some decoded float
\* is negative; otherwise it holds the decoded floats unchanged, cell (r, c)
\* of the ny x nx result being float (c - 1) + (r - 1) * nx of the file
C1_WholeGridInvalidation ==
    (pc = "done" /\ array_out.raised = None) =>
        /\ DOMAIN array_out.array = 1..ny
        /\ \A r \in 1..ny : DOMAIN array_out.array[r] = 1..nx
        /\ IF \E k \in DOMAIN data : data[k] < 0
           THEN \A r \in 1..ny, c \in 1..nx : array_out.array[r][c] = Sentinel
           ELSE \A r \in 1..ny, c \in 1..nx :
                   array_out.array[r][c] = data[(c - 1) + (r - 1) * nx + 1]

C1_Witness ==
    /\ pc = "done"
    /\ array_out.raised = None
    /\ \E k \in DOMAIN data : data[k] < 0
    /\ \E k \in DOMAIN data : data[k] > 0
    /\ \A r \in 1..ny, c \in 1..nx : array_out.array[r][c] = Sentinel

(***************************************************************************)
(* Properties of extract_rfe (SpecExtractRfe)                              *)
(***************************************************************************)
\* the cells of time step k that lie in the region and are not missing
ValidCells(region, grid) ==
    {c \in (1..NLat) \X (1..NLon) :
        /\ region.S <= latitude[c[1]] /\ latitude[c[1]] <= region.N
        /\ region.W <= longitude[c[2]] /\ longitude[c[2]] <= region.E
        /\ grid[c[1]][c[2]] # FillValue}

\* C2: extract_rfe raises nothing, and for every time step the value stored
\* for the region is NaN when its window holds no cell or only missing cells,
\* and otherwise the sum of the non-missing cells of the window divided by
\* their number
C2_RegionMean ==
    pc = "done" =>
        /\ exc = None
        /\ \A k \in DOMAIN netcdf_dir[BaseYear].time :
             LET grid  == netcdf_dir[BaseYear].precip[k]
                 valid == ValidCells(df[1], grid)
                 v     == rfe[1].rows[1][k]
                 total == SumOver(valid, [c \in valid |-> grid[c[1]][c[2]]])
             IN IF valid = {} THEN v = NaN
                ELSE v.d > 0 /\ v.n * Cardinality(valid) = total * v.d

C2_Witness ==
    /\ pc = "done"
    /\ df[1].W > df[1].E
    /\ df[1].S <= 1 /\ df[1].N >= 2
    /\ \E i \in 1..NLat, j \in 1..NLon : netcdf_dir[BaseYear].precip[1][i][j] # FillValue
    /\ rfe[1].rows[1][1] = NaN

(***************************************************************************)
(* Properties of download_files (SpecDownload)                             *)
(***************************************************************************)
\* what one iteration of download_files must do
C8_Iteration ==
    (pc = "download_files" /\ dl_i <= Len(files_to_download)) =>
        LET url_file == files_to_download[dl_i]
            last     == fetch_log'[Len(fetch_log')]
        IN /\ Len(fetch_log') = Len(fetch_log) + 1
           /\ last.file = url_file
           /\ (last.outcome \in {"downloaded", "failed"}) <=> ~netcdf_dir[url_file].exists
           /\ last.outcome = "present" <=> netcdf_dir[url_file].exists
           /\ \A y \in Years : netcdf_dir[y].exists => netcdf_dir'[y] = netcdf_dir[y]
           /\ pc' = "download_files" /\ dl_i' = dl_i + 1 /\ exc' = None

\* C8: each listed file is fetched exactly when no local file of that name
\* exists, a failed fetch leaves the loop running, every element of the list
\* is considered before download_files returns, and a file that exists
\* locally is never changed
C8_FetchOnlyMissing ==
    /\ [][C8_Iteration]_vars
    /\ [](pc # "Traceback")
    /\ [](pc = "done" => /\ Len(fetch_log) = Len(files_to_download)
                         /\ \A k \in DOMAIN fetch_log :
                               fetch_log[k].file = files_to_download[k])

C8_Witness ==
    /\ pc = "done"
    /\ \E k \in DOMAIN fetch_log, m \in DOMAIN fetch_log, j \in DOMAIN fetch_log :
         /\ k < m
         /\ fetch_log[k].outcome = "failed"
         /\ fetch_log[m].outcome = "downloaded"
         /\ fetch_log[j].outcome = "present"

(***************************************************************************)
(* Properties of the conversion (SpecConvert)                              *)
(***************************************************************************)
\* the binary files whose date has no converted file
Unconverted ==
    {f \in BinNames : /\ bindir[f].exists
                      /\ ~\E p \in NcPaths : ncdir[p].exists /\ p[3] = f[1]}

\* what the steps of a conversion run must do
C7_Steps ==
    /\ (pc = "convert" /\ pc' = "convert_bin2nc") =>
          /\ Range(files_to_convert') = Unconverted
          /\ \A k \in DOMAIN files_to_convert', m \in DOMAIN files_to_convert' :
                k < m => NameKey(files_to_convert'[k]) < NameKey(files_to_convert'[m])
    /\ \A p \in NcPaths :
          /\ ncdir[p].exists => (ncdir'[p] = ncdir[p] /\ nc_writes'[p] = nc_writes[p])
          /\ nc_writes'[p] # nc_writes[p] =>
                /\ pc = "convert_bin2nc"
                /\ p = get_nc_filename(files_to_convert[cv_i])
                /\ ncdir'[p].exists

\* C7: determine_files_to_convert returns exactly the binary files whose date
\* has no converted file, a file is encoded only when its target does not
\* exist and an existing converted file is never rewritten, and the run that
\* follows a completed run selects and encodes nothing
C7_SkipCache ==
    /\ [][C7_Steps]_vars
    /\ []((runs > 1 /\ pc \in {"convert_bin2nc", "done"}) => files_to_convert = <<>>)

C7_Witness ==
    /\ runs = 2
    /\ pc = "done"
    /\ \E p \in NcPaths, q \in NcPaths :
          /\ nc_writes[p] = 1
          /\ ncdir[q] = OldNc
    /\ files_to_convert = <<>>

(***************************************************************************)
(* Properties of extract() (SpecExtract)                                   *)
(***************************************************************************)
Requested == Range(date_range(config.startdate, config.enddate))

\* the dates held by the files that extract() selects
FoundDates ==
    UNION {Range(netcdf_dir[y].time) :
             y \in {z \in Years : netcdf_dir[z].exists /\ z \in year_range(config.startdate, config.enddate)}}

\* the value of region r on day d computed from the file that holds the day
CellOf(r, d) ==
    LET y == YearOf(d)
        k == CHOOSE i \in DOMAIN netcdf_dir[y].time : netcdf_dir[y].time[i] = d
    IN MeanOver(netcdf_dir[y].precip[k],
                SliceSel(latitude, df[r].S, df[r].N),
                SliceSel(longitude, df[r].W, df[r].E))

\* C3: a file that cannot be opened does not end the run
C3_FailureIsolation ==
    ~(/\ pc = "Traceback"
      /\ exc = "OSError"
      /\ \E k \in DOMAIN filelist : ~netcdf_dir[filelist[k]].readable)

\* C4: when exactly one requested date is in no file, the written table has
\* a column for every requested date, the column of the missing date holds
\* only NaN, and every other column holds the rounded values of its date
C4_MissingDateColumn ==
    (/\ csv.written
     /\ Cardinality(Requested) >= 2
     /\ Cardinality(Requested \ FoundDates) = 1) =>
        /\ Requested \subseteq Range(csv.columns)
        /\ \A k \in DOMAIN csv.columns, r \in DOMAIN df :
              IF csv.columns[k] \in FoundDates
              THEN csv.rows[r][k] = Round1(CellOf(r, csv.columns[k]))
              ELSE csv.rows[r][k] = NaN

\* C5: the date columns of a written table are exactly the requested dates
\* that were found in the files
C5_DateReconciliation ==
    csv.written => Range(csv.columns) = Requested \cap FoundDates

\* C6: every cell of a written table that is not NaN is a multiple of 0.1
C6_RoundedCells ==
    csv.written =>
        \A r \in DOMAIN csv.rows, k \in DOMAIN csv.columns :
            csv.rows[r][k] = NaN \/ 10 % csv.rows[r][k].d = 0

\* C9 as stated: with every requested day available, the table has
\* enddate - startdate date columns
C9_ExclusiveEnd ==
    (csv.written /\ Requested \subseteq FoundDates) =>
        Len(csv.columns) = config.enddate - config.startdate

\* C9: with every requested day available, the table has one column for each
\* day from startdate to enddate, both included: enddate - startdate + 1
C9_InclusiveEnd ==
    (csv.written /\ Requested \subseteq FoundDates) =>
        /\ Len(csv.columns) = config.enddate - config.startdate + 1
        /\ \A k \in DOMAIN csv.columns : csv.columns[k] = config.startdate + k - 1

C9_Witness ==
    /\ csv.written
    /\ ~warned
    /\ config.enddate - config.startdate = 2
    /\ Len(csv.columns) = 3
    /\ csv.columns[3] = config.enddate

(***************************************************************************)
(* Properties of wrapper.py (SpecWrapper)                                  *)
(***************************************************************************)
IsPrefix(s, t) == Len(s) <= Len(t) /\ \A k \in DOMAIN s : s[k] = t[k]

\* C10: the stages return in the order download, convert, extract, a stage
\* runs only after the previous one has returned, and with the settings of
\* config.py a run whose download stage returned does not end before the
\* conversion stage has returned
C10_StageOrder ==
    /\ IsPrefix(stages, <<"download", "convert", "extract">>)
    /\ pc \in {"convert", "convert_bin2nc"} => stages = <<"download">>
    /\ pc \in {"extract", "extract_loop"} => stages = <<"download", "convert">>
    /\ (/\ config.attrs = ShippedAttrs
        /\ pc \in {"done", "Traceback"}
        /\ Len(stages) >= 1) => Len(stages) >= 2

====
